---------------------------- MODULE Spec2Model ----------------------------
(***************************************************************************)
(* A model of rcli's text cryptographic subsystem (src/process/text.rs)    *)
(* and of the password generator that feeds its key generation             *)
(* (src/process/generate_pass.rs).                                         *)
(*                                                                         *)
(* Byte buffers are sequences of integers 0..255.  The three external      *)
(* crates (blake3, ed25519_dalek, chacha20poly1305) are not part of the    *)
(* repository; they are modelled as idealised primitives that are          *)
(* computed on the bytes: deterministic, of the real output lengths,       *)
(* sensitive to every key byte and to every input byte.  Everything the    *)
(* repository's own code does around them (key-length checks, slicing,     *)
(* error propagation, the fixed nonce, the dispatch on the format) is      *)
(* translated from the source.                                             *)
(***************************************************************************)
EXTENDS Integers, Sequences, FiniteSets

VARIABLES
    rng,      \* state of the thread-local generator behind rand::thread_rng()
    last,     \* the last text operation: arguments, outcome, and the call before it
    pass,     \* the last process_genpass call: arguments and outcome
    bundle,   \* the artifacts of the last process_text_key_generate call
    ref       \* a remembered earlier text operation (arguments and outcome)

vars == <<rng, last, pass, bundle, ref>>

---------------------------------------------------------------------------
(* Program constants *)

\* text.rs:122/145/172/187  `key.len() != 32`
KeyLen == 32
\* text.rs:74  `&sig[..64]`
SigLen == 64
\* blake3::Hash is 32 bytes (text.rs:47)
HashLen == 32
\* Poly1305 tag appended by cipher.encrypt (text.rs:92)
TagLen == 16

\* text.rs:89 and text.rs:108: the hardcoded nonce
NONCE == <<249, 115, 113, 158, 149, 52, 117, 46, 246, 119, 228, 36>>

\* text.rs:246  KEY = b"iCfTwZ7jtMV*@FXZzEE&KCB#SXn7eGCE"
KEY == <<105, 67, 102, 84, 119, 90, 55, 106, 116, 77, 86, 42, 64, 70, 88, 90,
         122, 69, 69, 38, 75, 67, 66, 35, 83, 88, 110, 55, 101, 71, 67, 69>>

\* text.rs:250  "hello world"
HELLO == <<104, 101, 108, 108, 111, 32, 119, 111, 114, 108, 100>>

\* generate_pass.rs:4-7
UPPER == <<65, 66, 67, 68, 69, 70, 71, 72, 74, 75, 76, 77, 78, 80, 81, 82,
           83, 84, 85, 86, 87, 88, 89, 90>>
LOWER == <<97, 98, 99, 100, 101, 102, 106, 104, 105, 106, 107, 109, 110, 111,
           112, 113, 114, 115, 116, 117, 118, 119, 120, 121, 122>>
NUMBER == <<49, 50, 51, 52, 53, 54, 55, 56, 57>>
SYMBOL == <<33, 64, 35, 36, 37, 94, 38, 42, 95>>

---------------------------------------------------------------------------
(* Bounds of the model *)

\* inputs are the prefixes of "hello world" of at most MaxMsg bytes
MaxMsg == 2
\* the generator starts in one of the states 0..MaxSeed
MaxSeed == 2
\* process_genpass is called with length 0..MaxLen (and the CLI default)
MaxLen == 5

---------------------------------------------------------------------------
(* Bytes *)

Range(s) == {s[i] : i \in DOMAIN s}

Repeat(n, b) == [i \in 1..n |-> b]

RECURSIVE XorBits(_, _, _)
XorBits(a, b, n) ==
    IF n = 0 THEN 0
    ELSE (((a % 2) + (b % 2)) % 2) + 2 * XorBits(a \div 2, b \div 2, n - 1)

Xor(a, b) == XorBits(a, b, 8)

Pow2(j) == CASE j = 0 -> 1 [] j = 1 -> 2 [] j = 2 -> 4 [] j = 3 -> 8
             [] j = 4 -> 16 [] j = 5 -> 32 [] j = 6 -> 64 [] OTHER -> 128

\* buffer s with bit j (0..7) of byte i flipped
FlipBit(s, i, j) == [s EXCEPT ![i] = Xor(s[i], Pow2(j))]

\* every buffer that differs from s in exactly one bit
BitFlips(s) == {FlipBit(s, i, j) : i \in DOMAIN s, j \in 0..7}

\* sum over the positions j = i, i + n, i + 2n, ... of buf of an odd multiple
\* of the byte (plus the length, below): changes whenever one byte changes
RECURSIVE AbsorbFrom(_, _, _, _)
AbsorbFrom(buf, n, j, k) ==
    IF j > Len(buf) THEN 0
    ELSE (2 * k + 1) * (buf[j] + 1) + AbsorbFrom(buf, n, j + n, k + 1)

Absorb(buf, i, n) == (AbsorbFrom(buf, n, i, 0) + 31 * Len(buf)) % 256

---------------------------------------------------------------------------
(* The external primitives, idealised *)

\* blake3::keyed_hash(&key, &buf): 32 bytes; distinct keys give distinct
\* hashes of the same input, distinct inputs distinct hashes under one key
\* a mutant: the key is left out of the hash (blake3::hash)
blake3_keyed_hash_Unkeyed(key, buf) ==
    [i \in 1..HashLen |-> Absorb(buf, i, HashLen)]

blake3_keyed_hash(key, buf) ==
    [i \in 1..HashLen |-> (key[i] + Absorb(buf, i, HashLen)) % 256]

\* SigningKey::verifying_key(): the public key of a 32-byte seed; its
\* encoding always decodes (IsPoint)
verifying_key(seed) ==
    [i \in 1..KeyLen |->
        IF i < KeyLen THEN (3 * seed[i] + 7 * i) % 256 ELSE (2 * seed[i]) % 256]

\* VerifyingKey::from_bytes succeeds only on the encoding of a curve point
IsPoint(bytes) == bytes[KeyLen] % 2 = 0

\* SigningKey::sign(&buf): 64 bytes R || S, deterministic in (seed, buf)
ed25519_sign(seed, buf) ==
    LET R == blake3_keyed_hash(seed, buf)
    IN  R \o blake3_keyed_hash(verifying_key(seed), R \o buf)

\* VerifyingKey::verify(&buf, &sig).is_ok() on a 64-byte signature
ed25519_verify(pk, buf, sig) ==
    LET R == SubSeq(sig, 1, HashLen)
        S == SubSeq(sig, HashLen + 1, SigLen)
    IN  S = blake3_keyed_hash(pk, R \o buf)

\* ChaCha20 keystream byte i under (key, nonce)
KeyStream(key, nonce, i) ==
    (5 * key[((i - 1) % KeyLen) + 1] + nonce[((i - 1) % Len(nonce)) + 1] + 17 * i) % 256

ApplyStream(key, nonce, buf) ==
    [i \in 1..Len(buf) |-> Xor(buf[i], KeyStream(key, nonce, i))]

\* Poly1305 tag of the encrypted payload under (key, nonce)
Tag(key, nonce, body) ==
    [i \in 1..TagLen |->
        (key[i] + 3 * key[i + TagLen] + nonce[((i - 1) % Len(nonce)) + 1]
           + Absorb(body, i, TagLen)) % 256]

\* Aead::encrypt(nonce, plaintext): payload || tag
aead_encrypt(key, nonce, plaintext) ==
    LET body == ApplyStream(key, nonce, plaintext)
    IN  body \o Tag(key, nonce, body)

\* Aead::decrypt(nonce, ciphertext): Err unless the tag verifies
aead_decrypt(key, nonce, ciphertext) ==
    IF Len(ciphertext) < TagLen THEN [ok |-> FALSE, bytes |-> <<>>]
    ELSE LET body == SubSeq(ciphertext, 1, Len(ciphertext) - TagLen)
             tag  == SubSeq(ciphertext, Len(ciphertext) - TagLen + 1, Len(ciphertext))
         IN  IF Tag(key, nonce, body) = tag
             THEN [ok |-> TRUE, bytes |-> ApplyStream(key, nonce, body)]
             ELSE [ok |-> FALSE, bytes |-> <<>>]

---------------------------------------------------------------------------
(* Outcomes of a call.  kind: "ok" (Ok(..)), "err" (Err(..)) or "panic";  *)
(* bytes/flag: the Ok value (Vec<u8> or bool); read: the reader was read   *)
(* to its end; crypto: primitive operations performed; engine: an engine   *)
(* instance was constructed; nonce: the nonce an encryption ran under.     *)

Outcome(kind, bytes, flag, read, crypto, engine) ==
    [kind |-> kind, bytes |-> bytes, flag |-> flag,
     read |-> read, crypto |-> crypto, engine |-> engine, nonce |-> <<>>]

\* `Err(anyhow!("key length must be 32 bytes"))` out of try_new, through `?`
KeyError == Outcome("err", <<>>, FALSE, FALSE, 0, FALSE)

---------------------------------------------------------------------------
(* Engine construction: text.rs:119-194 *)

\* a mutant: the length check accepts any key of at least 32 bytes
Blake3_try_new_AtLeast(key) ==
    IF Len(key) < KeyLen THEN [ok |-> FALSE, key |-> <<>>]
    ELSE [ok |-> TRUE, key |-> SubSeq(key, 1, KeyLen)]

Blake3_try_new(key) ==
    IF Len(key) # KeyLen THEN [ok |-> FALSE, key |-> <<>>]
    ELSE [ok |-> TRUE, key |-> SubSeq(key, 1, KeyLen)]

Ed25519Signer_try_new(key) ==
    IF Len(key) # KeyLen THEN [ok |-> FALSE, key |-> <<>>]
    ELSE [ok |-> TRUE, key |-> SubSeq(key, 1, KeyLen)]

Chacha2_try_new(key) ==
    IF Len(key) # KeyLen THEN [ok |-> FALSE, key |-> <<>>]
    ELSE [ok |-> TRUE, key |-> SubSeq(key, 1, KeyLen)]

\* decoded: VerifyingKey::from_bytes was attempted (a curve operation)
Ed25519Verifier_try_new(key) ==
    IF Len(key) # KeyLen THEN [ok |-> FALSE, key |-> <<>>, decoded |-> FALSE]
    ELSE IF ~IsPoint(SubSeq(key, 1, KeyLen))
         THEN [ok |-> FALSE, key |-> <<>>, decoded |-> TRUE]
         ELSE [ok |-> TRUE, key |-> SubSeq(key, 1, KeyLen), decoded |-> TRUE]

---------------------------------------------------------------------------
(* The engines' operations: text.rs:43-117.  `input` is what the reader    *)
(* yields when read to its end.                                            *)

Blake3_sign(self, input) ==
    Outcome("ok", blake3_keyed_hash(self.key, input), FALSE, TRUE, 1, TRUE)

\* a mutant: verify hashes an empty buffer (the reader is not read)
Blake3_verify_NoRead(self, input, sig) ==
    Outcome("ok", <<>>, blake3_keyed_hash(self.key, <<>>) = sig, FALSE, 1, TRUE)

Blake3_verify(self, input, sig) ==
    Outcome("ok", <<>>, blake3_keyed_hash(self.key, input) = sig, TRUE, 1, TRUE)

Ed25519Signer_sign(self, input) ==
    Outcome("ok", ed25519_sign(self.key, input), FALSE, TRUE, 1, TRUE)

\* `&sig[..64]` panics on a shorter slice, after the reader was read
Ed25519Verifier_verify(self, input, sig) ==
    IF Len(sig) < SigLen
    THEN Outcome("panic", <<>>, FALSE, TRUE, 1, TRUE)
    ELSE Outcome("ok", <<>>, ed25519_verify(self.key, input, SubSeq(sig, 1, SigLen)),
                 TRUE, 2, TRUE)

\* a mutant: the nonce is taken from the generator (text.rs:91, commented out)
Chacha2_text_encrypt_RngNonce(self, input) ==
    LET nonce == [i \in 1..Len(NONCE) |-> (rng * 7 + i) % 256]
    IN  [Outcome("ok", aead_encrypt(self.key, nonce, input), FALSE, TRUE, 1, TRUE)
            EXCEPT !.nonce = nonce]

\* a mutant: the nonce written out at text.rs:89 differs from text.rs:108's
Chacha2_text_encrypt_OtherNonce(self, input) ==
    LET nonce == [NONCE EXCEPT ![1] = 248]
    IN  [Outcome("ok", aead_encrypt(self.key, nonce, input), FALSE, TRUE, 1, TRUE)
            EXCEPT !.nonce = nonce]

Chacha2_text_encrypt(self, input) ==
    LET nonce == NONCE
    IN  [Outcome("ok", aead_encrypt(self.key, nonce, input), FALSE, TRUE, 1, TRUE)
            EXCEPT !.nonce = nonce]

\* a mutant: a failed authentication yields the unauthenticated plaintext
Chacha2_text_decrypt_NoAuth(self, ct) ==
    Outcome("ok", ApplyStream(self.key, NONCE, SubSeq(ct, 1, Len(ct) - TagLen)),
            FALSE, FALSE, 1, TRUE)

Chacha2_text_decrypt(self, ct) ==
    LET r == aead_decrypt(self.key, NONCE, ct)
    IN  IF r.ok THEN Outcome("ok", r.bytes, FALSE, FALSE, 1, TRUE)
        ELSE Outcome("err", <<>>, FALSE, FALSE, 1, TRUE)

---------------------------------------------------------------------------
(* The entry points: text.rs:196-238 *)

process_text_sign(input, key, format) ==
    IF format = "blake3"
    THEN LET signer == Blake3_try_new(key)
         IN  IF signer.ok THEN Blake3_sign(signer, input) ELSE KeyError
    ELSE LET signer == Ed25519Signer_try_new(key)
         IN  IF signer.ok THEN Ed25519Signer_sign(signer, input) ELSE KeyError

process_text_verify(input, key, sig, format) ==
    IF format = "blake3"
    THEN LET verifier == Blake3_try_new(key)
         IN  IF verifier.ok THEN Blake3_verify(verifier, input, sig) ELSE KeyError
    ELSE LET verifier == Ed25519Verifier_try_new(key)
         IN  IF verifier.ok THEN Ed25519Verifier_verify(verifier, input, sig)
             ELSE Outcome("err", <<>>, FALSE, FALSE,
                          IF verifier.decoded THEN 1 ELSE 0, FALSE)

process_text_encrypt(input, key) ==
    LET chacha2 == Chacha2_try_new(key)
    IN  IF chacha2.ok THEN Chacha2_text_encrypt(chacha2, input) ELSE KeyError

process_text_decrypt(ct, key) ==
    LET chacha2 == Chacha2_try_new(key)
    IN  IF chacha2.ok THEN Chacha2_text_decrypt(chacha2, ct) ELSE KeyError

---------------------------------------------------------------------------
(* Randomness.  rand::thread_rng() is a generator whose state lives in the *)
(* thread and is advanced by every draw; OsRng returns fresh entropy.      *)

Seeds == 0..MaxSeed

\* the generator's next state and the word it yields in a state
Step(s) == (5 * s + 3) % 16
Word(s) == (13 * s * s + 7 * s + 11) % 257

\* the generator's state after k draws (the states repeat after 16)
RECURSIVE StepTimes(_, _)
StepTimes(s, k) == IF k = 0 THEN s ELSE StepTimes(Step(s), k - 1)

StepN(s, k) == StepTimes(s, k % 16)

\* slice.choose(&mut rng): None on an empty slice
Choose(slice, s) == slice[(Word(s) % Len(slice)) + 1]

\* n bytes of OsRng output for the entropy e
OsRngBytes(e, n) == [i \in 1..n |-> (Word((e + i) % 16) + 3 * e) % 256]

---------------------------------------------------------------------------
(* process_genpass: generate_pass.rs:9-52.  The k-th draw of a call that   *)
(* starts with the generator in state s is made in state StepN(s, k - 1).  *)

\* the alphabets of the enabled classes, in the order of generate_pass.rs:20-38
Enabled(uppercase, lowercase, number, symbol) ==
    (IF uppercase THEN <<UPPER>> ELSE <<>>) \o (IF lowercase THEN <<LOWER>> ELSE <<>>)
    \o (IF number THEN <<NUMBER>> ELSE <<>>) \o (IF symbol THEN <<SYMBOL>> ELSE <<>>)

\* a mutant: with no class enabled the pool falls back to the lowercase
\* alphabet
Pool_LowerByDefault(classes) ==
    IF classes = <<>> THEN LOWER
    ELSE classes[1] \o (IF Len(classes) > 1 THEN classes[2] ELSE <<>>)
         \o (IF Len(classes) > 2 THEN classes[3] ELSE <<>>)
         \o (IF Len(classes) > 3 THEN classes[4] ELSE <<>>)

\* `chars.extend_from_slice(..)` for each enabled class
RECURSIVE Pool(_)
Pool(classes) == IF classes = <<>> THEN <<>> ELSE Head(classes) \o Pool(Tail(classes))

\* a mutant: no character is pushed for the enabled classes
Guaranteed_None(classes, s) == <<>>

\* `password.push(*CLASS.choose(&mut rng))` for each enabled class
Guaranteed(classes, s) ==
    [k \in 1..Len(classes) |-> Choose(classes[k], StepN(s, k - 1))]

\* generate_pass.rs:40-45: `count` pushes of a draw from chars (not empty);
\* d draws were made before
Fill(password, chars, count, s, d) ==
    [t \in 1..(Len(password) + count) |->
        IF t <= Len(password) THEN password[t]
        ELSE Choose(chars, StepN(s, d + t - Len(password) - 1))]

\* generate_pass.rs:47: `for i in (1..len).rev() { swap(i, gen_range(0..=i)) }`,
\* the steps i = hi down to lo (indices from 0); d draws were made before the
\* first step.  The range is halved, and the first half's result is looked
\* at before the second half starts, to keep the evaluation shallow.
RECURSIVE ShuffleSteps(_, _, _, _, _)
ShuffleSteps(p, s, d, hi, lo) ==
    IF hi < lo THEN p
    ELSE IF hi = lo
    THEN LET j == Word(StepN(s, d + Len(p) - 1 - hi)) % (hi + 1)
         IN  [p EXCEPT ![hi + 1] = p[j + 1], ![j + 1] = p[hi + 1]]
    ELSE LET mid == (hi + lo) \div 2
             upper == ShuffleSteps(p, s, d, hi, mid + 1)
         IN  IF Len(upper) = Len(p) THEN ShuffleSteps(upper, s, d, mid, lo) ELSE p

Shuffle(p, s, d) == ShuffleSteps(p, s, d, Len(p) - 1, 1)

PassOutcome(kind, password, s) == [kind |-> kind, password |-> password, rng |-> s]

\* a mutant: the fill count is `length.saturating_sub(password.len() as u8)`
process_genpass_Saturating(s, build, length, uppercase, lowercase, number, symbol) ==
    LET classes  == Enabled(uppercase, lowercase, number, symbol)
        chars    == Pool(classes)
        password == Guaranteed(classes, s)
        d0       == Len(classes)
        count    == IF length > d0 THEN length - d0 ELSE 0
    IN  IF count > 0 /\ Len(chars) = 0
        THEN PassOutcome("panic", <<>>, StepN(s, d0))
        ELSE LET filled == Fill(password, chars, count, s, d0)
                 d1     == d0 + count
                 d2     == d1 + (IF Len(filled) > 1 THEN Len(filled) - 1 ELSE 0)
             IN  PassOutcome("ok", Shuffle(filled, s, d1), StepN(s, d2))

\* build: "debug" (overflow checks on: `length - len as u8` panics when it
\* underflows) or "release" (it wraps modulo 2^8)
process_genpass(s, build, length, uppercase, lowercase, number, symbol) ==
    LET classes  == Enabled(uppercase, lowercase, number, symbol)
        chars    == Pool(classes)
        password == Guaranteed(classes, s)
        d0       == Len(classes)
        n        == Len(password) % 256
    IN  IF length < n /\ build = "debug"
        THEN PassOutcome("panic", <<>>, StepN(s, d0))
        ELSE LET count == (length - n) % 256
             IN  IF count > 0 /\ Len(chars) = 0
                 THEN PassOutcome("panic", <<>>, StepN(s, d0))
                 ELSE LET filled == Fill(password, chars, count, s, d0)
                          d1     == d0 + count
                          d2     == d1 + (IF Len(filled) > 1 THEN Len(filled) - 1 ELSE 0)
                      IN  PassOutcome("ok", Shuffle(filled, s, d1), StepN(s, d2))

Builds == {"debug", "release"}

\* generate_pass.rs:10 `length: u8`; genpass_opts.rs:5 default 16
Lengths == (0..MaxLen) \cup {16}

\* the generator's states
RngStates == {StepN(0, k) : k \in 0..15}

\* process_genpass tabulated over the generator's states and the arguments
\* it is called with, so that each call is evaluated once
GenPassTable ==
    [s \in RngStates, build \in Builds, length \in Lengths, uppercase \in BOOLEAN,
     lowercase \in BOOLEAN, number \in BOOLEAN, symbol \in BOOLEAN |->
        process_genpass(s, build, length, uppercase, lowercase, number, symbol)]

\* text.rs:135: process_genpass(32, true, true, true, true), tabulated
KeyPassTable ==
    [s \in RngStates, build \in Builds |->
        process_genpass(s, build, 32, TRUE, TRUE, TRUE, TRUE)]

---------------------------------------------------------------------------
(* Key generation: text.rs:134-166, 221-226.  A bundle maps artifact names *)
(* to bytes.                                                               *)

NoBundle == [n \in {} |-> <<>>]

Blake3_generate(s, build) ==
    LET r == KeyPassTable[s, build]
    IN  [kind |-> r.kind, map |-> [n \in {"blake3.txt"} |-> r.password], rng |-> r.rng]

\* a mutant: the public artifact holds the secret key's bytes
Ed25519Signer_generate_SkTwice(e, s) ==
    LET sk == OsRngBytes(e, KeyLen)
    IN  [kind |-> "ok", map |-> [n \in {"ed25519.sk", "ed25519.pk"} |-> sk], rng |-> s]

Ed25519Signer_generate(e, s) ==
    LET sk == OsRngBytes(e, KeyLen)
        pk == verifying_key(sk)
    IN  [kind |-> "ok",
         map |-> [n \in {"ed25519.sk", "ed25519.pk"} |-> IF n = "ed25519.sk" THEN sk ELSE pk],
         rng |-> s]

process_text_key_generate(format, e, s, build) ==
    IF format = "blake3" THEN Blake3_generate(s, build) ELSE Ed25519Signer_generate(e, s)

---------------------------------------------------------------------------
(* What the operations are called with *)

Formats == {"blake3", "ed25519"}

Inputs == {SubSeq(HELLO, 1, n) : n \in 0..MaxMsg}

\* the test key (not the encoding of a point), its public key, another
\* point, and keys one byte short and one byte long
Keys == {KEY, verifying_key(KEY), Repeat(KeyLen, 42),
         SubSeq(KEY, 1, KeyLen - 1), Append(KEY, 0)}

\* keys read back from the generated artifacts
BundleKeys == {bundle[n] : n \in DOMAIN bundle}

---------------------------------------------------------------------------
(* The record of a call *)

Summary(c) ==
    [op |-> c.op, format |-> c.format, key |-> c.key, input |-> c.input,
     kind |-> c.out.kind, bytes |-> c.out.bytes, nonce |-> c.out.nonce]

NoSummary ==
    [op |-> "none", format |-> "", key |-> <<>>, input |-> <<>>,
     kind |-> "none", bytes |-> <<>>, nonce |-> <<>>]

Call(op, format, key, input, sig, out, prev) ==
    [op |-> op, format |-> format, key |-> key, input |-> input, sig |-> sig,
     out |-> out, prev |-> prev]

NoCall == Call("none", "", <<>>, <<>>, <<>>, Outcome("none", <<>>, FALSE, FALSE, 0, FALSE), NoSummary)

\* the previous call, kept when this call continues it
After(ops) == IF last.op \in ops /\ last.out.kind = "ok" THEN Summary(last) ELSE NoSummary

Snapshot(c) ==
    [op |-> c.op, format |-> c.format, key |-> c.key, input |-> c.input, sig |-> c.sig,
     kind |-> c.out.kind, bytes |-> c.out.bytes, flag |-> c.out.flag,
     after |-> c.prev.op]

NoRef == Snapshot(NoCall)

\* signatures handed to verify: none at all, or the one just produced
SigJust ==
    {<<>>} \cup (IF last.op = "sign" /\ last.out.kind = "ok" THEN {last.out.bytes} ELSE {})

\* ... and that one cut by a byte, with a byte appended, with a bit flipped
SigInputs ==
    SigJust \cup
    (IF last.op = "sign" /\ last.out.kind = "ok"
     THEN {SubSeq(last.out.bytes, 1, Len(last.out.bytes) - 1),
           Append(last.out.bytes, 0), FlipBit(last.out.bytes, 1, 0)}
     ELSE {})

\* ciphertexts handed to decrypt: an empty one, or the one just produced,
\* as is and with its first bit changed
CtJust ==
    {<<>>} \cup
    (IF last.op = "encrypt" /\ last.out.kind = "ok"
     THEN {last.out.bytes, FlipBit(last.out.bytes, 1, 0)} ELSE {})

\* ... and that one with any one bit changed, and cut by a byte
CtInputs ==
    CtJust \cup
    (IF last.op = "encrypt" /\ last.out.kind = "ok"
     THEN {SubSeq(last.out.bytes, 1, Len(last.out.bytes) - 1)} \cup BitFlips(last.out.bytes)
     ELSE {})

---------------------------------------------------------------------------
(* The operations: one call of an entry point with arguments drawn from   *)
(* the given sets.                                                         *)

NoPass ==
    [length |-> 0, uppercase |-> FALSE, lowercase |-> FALSE, number |-> FALSE,
     symbol |-> FALSE, build |-> "", kind |-> "none", password |-> <<>>]

Start ==
    /\ last = NoCall
    /\ pass = NoPass
    /\ bundle = NoBundle
    /\ ref = NoRef

\* the text operations never draw from the generator
Init == rng = 0 /\ Start

\* thread_rng() is seeded from the operating system
InitRng == rng \in Seeds /\ Start

DoSign(keys, inputs) ==
    \E format \in Formats, key \in keys, input \in inputs :
        last' = Call("sign", format, key, input, <<>>,
                     process_text_sign(input, key, format), NoSummary)

DoVerify(keys, inputs, sigs) ==
    \E format \in Formats, key \in keys, input \in inputs, sig \in sigs :
        last' = Call("verify", format, key, input, sig,
                     process_text_verify(input, key, sig, format), After({"sign"}))

DoEncrypt(keys, inputs) ==
    \E key \in keys, input \in inputs :
        last' = Call("encrypt", "", key, input, <<>>,
                     process_text_encrypt(input, key), After({"encrypt"}))

DoDecrypt(keys, cts) ==
    \E key \in keys, ct \in cts :
        last' = Call("decrypt", "", key, <<>>, ct,
                     process_text_decrypt(ct, key), After({"encrypt"}))

DoGenPass(builds, lengths, flags) ==
    \E build \in builds, length \in lengths, uppercase \in flags, lowercase \in flags,
       number \in flags, symbol \in flags :
        LET r == GenPassTable[rng, build, length, uppercase, lowercase, number, symbol]
        IN  /\ pass' = [length |-> length, uppercase |-> uppercase, lowercase |-> lowercase,
                        number |-> number, symbol |-> symbol, build |-> build,
                        kind |-> r.kind, password |-> r.password]
            /\ rng' = r.rng

---------------------------------------------------------------------------
(* Spec: the four text operations on supplied keys *)

Sign == DoSign(Keys, Inputs) /\ UNCHANGED <<rng, pass, bundle, ref>>

Verify == DoVerify(Keys, Inputs, SigInputs) /\ UNCHANGED <<rng, pass, bundle, ref>>

Encrypt == DoEncrypt(Keys, Inputs) /\ UNCHANGED <<rng, pass, bundle, ref>>

Decrypt == DoDecrypt(Keys, CtInputs) /\ UNCHANGED <<rng, pass, bundle, ref>>

Next == Sign \/ Verify \/ Encrypt \/ Decrypt

Spec == Init /\ [][Next]_vars

---------------------------------------------------------------------------
(* SpecGen: the password generator *)

GenPass == DoGenPass(Builds, Lengths, BOOLEAN) /\ UNCHANGED <<last, bundle, ref>>

NextGen == GenPass

SpecGen == InitRng /\ [][NextGen]_vars

---------------------------------------------------------------------------
(* SpecKey: key generation, and signing and verifying with what it wrote *)

\* the artifacts are written once in a run
KeyGenerate ==
    /\ bundle = NoBundle
    /\ \E format \in Formats, e \in Seeds, build \in Builds :
          LET r == process_text_key_generate(format, e, rng, build)
          IN  /\ bundle' = r.map
              /\ rng' = r.rng
    /\ UNCHANGED <<last, pass, ref>>

SignGenerated == DoSign(BundleKeys, Inputs) /\ UNCHANGED <<rng, pass, bundle, ref>>

VerifyGenerated == DoVerify(BundleKeys, Inputs, SigJust) /\ UNCHANGED <<rng, pass, bundle, ref>>

NextKey == KeyGenerate \/ SignGenerated \/ VerifyGenerated

SpecKey == InitRng /\ [][NextKey]_vars

---------------------------------------------------------------------------
(* SpecIso: the text operations between draws from the generator, with one *)
(* earlier call remembered in ref.                                         *)

IsoKeys == {KEY, verifying_key(KEY)}

IsoInputs == {SubSeq(HELLO, 1, 1)}

\* ref keeps the first call it is given
Remember == ref' \in (IF ref = NoRef THEN {ref, Snapshot(last')} ELSE {ref})

SignIso == DoSign(IsoKeys, IsoInputs) /\ Remember /\ UNCHANGED <<rng, pass, bundle>>

VerifyIso == DoVerify(IsoKeys, IsoInputs, SigJust) /\ Remember /\ UNCHANGED <<rng, pass, bundle>>

EncryptIso == DoEncrypt(IsoKeys, IsoInputs) /\ Remember /\ UNCHANGED <<rng, pass, bundle>>

DecryptIso == DoDecrypt(IsoKeys, CtJust) /\ Remember /\ UNCHANGED <<rng, pass, bundle>>

GenPassIso == DoGenPass({"release"}, {4}, {TRUE}) /\ UNCHANGED <<last, bundle, ref>>

NextIso == SignIso \/ VerifyIso \/ EncryptIso \/ DecryptIso \/ GenPassIso

SpecIso == InitRng /\ [][NextIso]_vars

---------------------------------------------------------------------------
(* Claims *)

\* the last call verified, with the same input and format, the signature
\* that the call before it produced
VerifiedSigned ==
    /\ last.op = "verify"
    /\ last.prev.op = "sign"
    /\ last.sig = last.prev.bytes
    /\ last.input = last.prev.input
    /\ last.format = last.prev.format

Returned(flag) == last.out.kind = "ok" /\ last.out.flag = flag

\* C1, as stated: for both formats, verifying under key k the signature
\* that process_text_sign made under the same 32-byte key k returns true.
C1_SameKeyBothFormats ==
    (VerifiedSigned /\ last.key = last.prev.key) => Returned(TRUE)

\* C1, amended: verifying the signature that process_text_sign made under a
\* 32-byte key k returns true under k itself for Blake3, and under the public
\* key derived from the seed k for Ed25519.
C1_RoundTrip ==
    (VerifiedSigned
       /\ last.key = (IF last.format = "blake3" THEN last.prev.key
                      ELSE verifying_key(last.prev.key)))
    => Returned(TRUE)

C1_Witness ==
    /\ VerifiedSigned
    /\ last.format = "ed25519"
    /\ last.input # <<>>
    /\ last.key = verifying_key(last.prev.key)
    /\ Returned(TRUE)

\* the last call verified under another 32-byte key than the signer's
CrossVerified == VerifiedSigned /\ Len(last.key) = KeyLen /\ last.key # last.prev.key

\* C2, as stated: for both formats, verifying under a 32-byte key k2 a
\* signature made under another 32-byte key k1 returns false, not an error.
C2_OtherKeyFalse == CrossVerified => Returned(FALSE)

\* C2, amended: for Blake3 it returns false; for Ed25519 it is an error when
\* k2 does not decode to a public key, true when k2 is the public key derived
\* from k1, and false otherwise.
C2_WrongKey ==
    CrossVerified =>
        IF last.format = "blake3" THEN Returned(FALSE)
        ELSE IF ~IsPoint(last.key) THEN last.out.kind = "err"
        ELSE Returned(last.key = verifying_key(last.prev.key))

C2_Witness ==
    /\ CrossVerified
    /\ last.format = "ed25519"
    /\ IsPoint(last.key)
    /\ last.key # verifying_key(last.prev.key)
    /\ Returned(FALSE)

\* the last call decrypted, under the encryption's key, a buffer while the
\* call before it was a successful encryption
DecryptedEncrypted ==
    /\ last.op = "decrypt"
    /\ last.prev.op = "encrypt"
    /\ last.key = last.prev.key

\* C3: decrypting, under the same key, what process_text_encrypt returned
\* for a plaintext returns exactly that plaintext.
C3_DecryptEncrypt ==
    (DecryptedEncrypted /\ last.sig = last.prev.bytes)
    => (last.out.kind = "ok" /\ last.out.bytes = last.prev.input)

C3_Witness ==
    /\ DecryptedEncrypted
    /\ last.sig = last.prev.bytes
    /\ last.prev.input # <<>>
    /\ last.out.bytes = last.prev.input

\* C4: decrypting, under the same key, a ciphertext of process_text_encrypt
\* with any single bit changed is an error, never a plaintext.
C4_TamperedFails ==
    (DecryptedEncrypted /\ last.sig \in BitFlips(last.prev.bytes))
    => last.out.kind = "err"

C4_Witness ==
    /\ DecryptedEncrypted
    /\ last.prev.input # <<>>
    /\ last.sig = FlipBit(last.prev.bytes, 1, 0)
    /\ last.out.kind = "err"

\* C5: with a key that is not 32 bytes long, sign, verify, encrypt and
\* decrypt return an error without reading the input, without a
\* cryptographic operation and without an engine.
C5_KeyLengthRejected ==
    (last.op \in {"sign", "verify", "encrypt", "decrypt"} /\ Len(last.key) # KeyLen)
    => (/\ last.out.kind = "err"
        /\ ~last.out.read
        /\ last.out.crypto = 0
        /\ ~last.out.engine)

C5_Witness ==
    /\ last.op = "verify"
    /\ last.format = "blake3"
    /\ Len(last.key) = KeyLen + 1
    /\ last.out.kind = "err"
    /\ ~last.out.read

\* C6: an Ed25519 verify with a valid public key and a signature of fewer
\* than 64 bytes returns an error: it does not panic and does not return true.
C6_ShortSignatureIsError ==
    (/\ last.op = "verify"
     /\ last.format = "ed25519"
     /\ Len(last.key) = KeyLen
     /\ IsPoint(last.key)
     /\ Len(last.sig) < SigLen)
    => last.out.kind = "err"

\* C7: no two encryptions under the same key use the same nonce (here: an
\* encryption and the encryption right before it).
C7_FreshNonce ==
    (/\ last.op = "encrypt"
     /\ last.out.kind = "ok"
     /\ last.prev.op = "encrypt"
     /\ last.prev.key = last.key)
    => last.out.nonce # last.prev.nonce

\* the alphabets of the classes the last process_genpass call enabled
PassAlphabets ==
    (IF pass.uppercase THEN {UPPER} ELSE {}) \cup (IF pass.lowercase THEN {LOWER} ELSE {})
    \cup (IF pass.number THEN {NUMBER} ELSE {}) \cup (IF pass.symbol THEN {SYMBOL} ELSE {})

\* C8: with at least one class enabled and a length that is at least the
\* number of enabled classes, process_genpass returns exactly `length`
\* characters, each from the alphabet of an enabled class, with at least one
\* character of each enabled class.
C8_GenPassShape ==
    (/\ pass.kind # "none"
     /\ PassAlphabets # {}
     /\ pass.length >= Cardinality(PassAlphabets))
    => (/\ pass.kind = "ok"
        /\ Len(pass.password) = pass.length
        /\ \A t \in 1..Len(pass.password) :
              \E a \in PassAlphabets : pass.password[t] \in Range(a)
        /\ \A a \in PassAlphabets :
              \E t \in 1..Len(pass.password) : pass.password[t] \in Range(a))

C8_Witness ==
    /\ pass.kind = "ok"
    /\ pass.length = 16
    /\ pass.uppercase /\ ~pass.lowercase /\ pass.number /\ ~pass.symbol
    /\ Len(pass.password) = 16

\* C9: what process_text_key_generate writes is usable as written: blake3.txt
\* is 32 bytes and a signature made with it verifies as true with it;
\* ed25519.sk and ed25519.pk are 32 bytes each and a signature made with
\* ed25519.sk verifies as true with ed25519.pk.
C9_GeneratedKeysUsable ==
    /\ bundle # NoBundle =>
          /\ DOMAIN bundle \in {{"blake3.txt"}, {"ed25519.sk", "ed25519.pk"}}
          /\ \A n \in DOMAIN bundle : Len(bundle[n]) = KeyLen
    /\ (/\ VerifiedSigned
        /\ last.format = "blake3"
        /\ DOMAIN bundle = {"blake3.txt"}
        /\ last.prev.key = bundle["blake3.txt"]
        /\ last.key = bundle["blake3.txt"]) => Returned(TRUE)
    /\ (/\ VerifiedSigned
        /\ last.format = "ed25519"
        /\ DOMAIN bundle = {"ed25519.sk", "ed25519.pk"}
        /\ last.prev.key = bundle["ed25519.sk"]
        /\ last.key = bundle["ed25519.pk"]) => Returned(TRUE)

C9_Witness ==
    /\ VerifiedSigned
    /\ last.format = "ed25519"
    /\ DOMAIN bundle = {"ed25519.sk", "ed25519.pk"}
    /\ last.prev.key = bundle["ed25519.sk"]
    /\ last.key = bundle["ed25519.pk"]
    /\ last.input # <<>>
    /\ Returned(TRUE)

\* the last call has the operation, format, key, input and
\* signature/ciphertext of the remembered call
SameCall ==
    /\ ref # NoRef
    /\ last.op = ref.op
    /\ last.format = ref.format
    /\ last.key = ref.key
    /\ last.input = ref.input
    /\ last.sig = ref.sig

C11_LengthUnderflow ==
    (pass.kind # "none" /\ pass.length < Cardinality(PassAlphabets))
    => (/\ ~(pass.kind = "ok" /\ Len(pass.password) = pass.length)
        /\ pass.build = "debug" => pass.kind = "panic"
        /\ pass.build = "release" =>
              (pass.kind = "ok" /\ Len(pass.password) = pass.length + 256))

C11_Witness ==
    /\ pass.build = "release"
    /\ pass.length = 1
    /\ pass.uppercase /\ pass.lowercase /\ ~pass.number /\ ~pass.symbol
    /\ pass.kind = "ok"
    /\ Len(pass.password) = 257

\* C12: with all four class flags false, process_genpass aborts on the first
\* fill draw when length > 0 (the pool is empty), and returns the empty
\* string when length = 0.
C12_NoClassEnabled ==
    (pass.kind # "none" /\ PassAlphabets = {})
    => IF pass.length > 0 THEN pass.kind = "panic"
       ELSE pass.kind = "ok" /\ pass.password = <<>>

C12_Witness ==
    /\ PassAlphabets = {}
    /\ pass.length = 16
    /\ pass.kind = "panic"

===========================================================================
